---- MODULE Spec2Model ----
(***************************************************************************)
(* A model of hopla's zoo feeding planner (ZooFeedingAlgorithm), of the    *)
(* pet models it consults (FeedingStatus, Pet, PetData) and of the food    *)
(* stockpile it draws from.                                                *)
(*                                                                         *)
(* The catalogs of PetData hold about a thousand names; the model keeps a  *)
(* few names of every catalog list, in catalog order.                      *)
(***************************************************************************)
EXTENDS Integers, Sequences, FiniteSets, TLC

VARIABLES user_zoo, start_stockpile, alg, fs_pc, fs_arg, fs_obj, fs_favorite, fs_required,
          args, new_egg, new_potion, new_pet, hatchable, favorite, generation1,
          heap, egg_collection, sub_collection, potion_collection, last_call,
          new_plan, added, given_dict, given_keys, filtered

vars ==
    <<user_zoo, start_stockpile, alg, fs_pc, fs_arg, fs_obj, fs_favorite, fs_required,
      args, new_egg, new_potion, new_pet, hatchable, favorite, generation1,
      heap, egg_collection, sub_collection, potion_collection, last_call,
      new_plan, added, given_dict, given_keys, filtered>>

planner_vars == <<user_zoo, start_stockpile, alg>>

model_vars == <<args, new_egg, new_potion, new_pet, hatchable, favorite, generation1>>

collection_vars == <<heap, egg_collection, sub_collection, potion_collection, last_call>>

plan_vars == <<new_plan, added>>

filter_vars == <<given_dict, given_keys, filtered>>

(***************************************************************************)
(* Bounds of the model.                                                    *)
(***************************************************************************)
\* longest zoo handed to the planner
MaxZoo == 3
\* food counts of a start stockpile range over 0..MaxFood and PlentyFood
MaxFood == 2
\* a count that feeds any pet, also one at feeding status -1 (11 items)
PlentyFood == 11
\* make_plan() calls on one ZooFeedingAlgorithm
MaxCalls == 2
\* feeding statuses tried on the constructor: -1 - StatusMargin .. 50 + StatusMargin
StatusMargin == 3
\* highest quantity of an egg or a hatching potion
MaxQuantity == 2
\* most entries of the dict a collection is built from
MaxEntries == 2
\* is_generation1_pet() calls on one pet
MaxAsks == 2
\* add_to_feed_plan() calls on one plan
MaxItems == 3

\* Python's None
None == [class |-> "NoneType"]

\* a raised exception of class name, in the place of the value a call returns
Raise(name) == [raised |-> name]

Raised(value) == "raised" \in DOMAIN value

(***************************************************************************)
(* Helpers on sequences.                                                   *)
(***************************************************************************)
Range(seq) == {seq[i] : i \in DOMAIN seq}

IsIn(x, seq) == \E i \in DOMAIN seq : seq[i] = x

(***************************************************************************)
(* PetData: the catalogs.                                                  *)
(***************************************************************************)
\* hatching_potion_favorite_food_mapping without the Golden potion
mapping_without_golden ==
    [potion \in {"Red", "Shade", "Skeleton", "CottonCandyBlue"} |->
        CASE potion = "Red" -> "Strawberry"
          [] potion = "Shade" -> "Chocolate"
          [] potion = "Skeleton" -> "Fish"
          [] potion = "CottonCandyBlue" -> "CottonCandyBlue"]

hatching_potion_favorite_food_mapping ==
    [potion \in {"Red", "Shade", "Skeleton", "CottonCandyBlue", "Golden"} |->
        CASE potion = "Red" -> "Strawberry"
          [] potion = "Shade" -> "Chocolate"
          [] potion = "Skeleton" -> "Fish"
          [] potion = "CottonCandyBlue" -> "CottonCandyBlue"
          [] potion = "Golden" -> "Honey"]

drop_hatching_potions == <<"Red", "Shade", "Skeleton", "CottonCandyBlue", "Golden">>

drop_food_names == <<"Strawberry", "Chocolate", "Fish", "CottonCandyBlue", "Honey">>

generation1_pet_names == <<"Wolf-Red", "Wolf-Shade", "Wolf-Golden">>

magic_potion_pet_names == <<"TigerCub-Fluorite">>

\* quest_pet_names that lists a generation 1 pet too
quest_pet_names_with_wolf == <<"Alligator-Shade", "Alligator-Golden", "Wolf-Shade">>

quest_pet_names == <<"Alligator-Shade", "Alligator-Golden">>

wacky_pet_names == <<"Wolf-Veggie">>

rare_pet_names == <<"Wolf-Veteran">>

only_1favorite_food_pet_names == generation1_pet_names \o quest_pet_names

feedable_pet_names == only_1favorite_food_pet_names \o magic_potion_pet_names

unfeedable_pet_names == rare_pet_names \o wacky_pet_names

\* pet_names that leaves out the wacky pets
pet_names_without_wacky ==
    generation1_pet_names \o magic_potion_pet_names \o quest_pet_names
        \o rare_pet_names

pet_names ==
    generation1_pet_names \o magic_potion_pet_names \o quest_pet_names
        \o wacky_pet_names \o rare_pet_names

(***************************************************************************)
(* FeedingStatus.                                                          *)
(***************************************************************************)
START_FEEDING_STATE == 5
FULLY_FED_STATE == 50
FAVORITE_INCREMENT == 5
NON_FAVORITE_INCREMENT == 2

\* math.ceil(a / b) for an integer a and a positive integer b
Ceil(a, b) == IF a % b = 0 THEN a \div b ELSE (a \div b) + 1

\* valid_status with 0 among the rejected statuses
valid_status_rejecting_zero(feeding_status) ==
    \/ feeding_status < -1
    \/ feeding_status \in {0, 1, 2, 3, 4}
    \/ feeding_status >= 50

\* the condition of FeedingStatus.__init__ under which it raises
\* InvalidFeedingStatus (the code names it valid_status)
valid_status(feeding_status) ==
    \/ feeding_status < -1
    \/ feeding_status \in {1, 2, 3, 4}
    \/ feeding_status >= 50

\* FeedingStatus(feeding_status): the object, or the exception raised
FeedingStatus(feeding_status) ==
    IF valid_status(feeding_status)
    THEN Raise("InvalidFeedingStatus")
    ELSE [feeding_status |-> feeding_status]

\* required_food_items_to_become_mount with // in the place of math.ceil
required_food_items_floor(self, is_favorite_food) ==
    LET target == FULLY_FED_STATE - self.feeding_status
    IN IF is_favorite_food
       THEN target \div FAVORITE_INCREMENT
       ELSE target \div NON_FAVORITE_INCREMENT

required_food_items_to_become_mount(self, is_favorite_food) ==
    LET target == FULLY_FED_STATE - self.feeding_status
    IN IF is_favorite_food
       THEN Ceil(target, FAVORITE_INCREMENT)
       ELSE Ceil(target, NON_FAVORITE_INCREMENT)

(***************************************************************************)
(* Pet.  A pet is [pet_name, feeding_status |-> a FeedingStatus].          *)
(***************************************************************************)
\* pet_name.split("-"): <<species, potion>>
NameParts ==
    [n \in Range(pet_names) |->
        CASE n = "Wolf-Red" -> <<"Wolf", "Red">>
          [] n = "Wolf-Shade" -> <<"Wolf", "Shade">>
          [] n = "Wolf-Golden" -> <<"Wolf", "Golden">>
          [] n = "TigerCub-Fluorite" -> <<"TigerCub", "Fluorite">>
          [] n = "Alligator-Shade" -> <<"Alligator", "Shade">>
          [] n = "Alligator-Golden" -> <<"Alligator", "Golden">>
          [] n = "Wolf-Veggie" -> <<"Wolf", "Veggie">>
          [] n = "Wolf-Veteran" -> <<"Wolf", "Veteran">>]

\* Pet(pet_name, feeding_status=...): the object, or the exception raised
Pet(pet_name, feeding_status) ==
    IF ~IsIn(pet_name, pet_names)
    THEN Raise("InvalidPet")
    ELSE [pet_name |-> pet_name, feeding_status |-> feeding_status]

hatching_potion(self) ==
    IF IsIn(self.pet_name, rare_pet_names) THEN None
    ELSE NameParts[self.pet_name][2]

is_feedable(self) == ~IsIn(self.pet_name, unfeedable_pet_names)

has_just_1_favorite_food(self) == IsIn(self.pet_name, only_1favorite_food_pet_names)

likes_all_food(self) == IsIn(self.pet_name, magic_potion_pet_names)

\* dict.get(key): the value, or None for a key the dict lacks
DictGet(dict, key) == IF key \in DOMAIN dict THEN dict[key] ELSE None

favorite_food(self) ==
    IF ~is_feedable(self) THEN "Unfeedable"
    ELSE IF IsIn(self.pet_name, magic_potion_pet_names) THEN "Any"
    ELSE IF has_just_1_favorite_food(self)
         THEN DictGet(hatching_potion_favorite_food_mapping, hatching_potion(self))
    ELSE Raise("InvalidPet")

\* is_favorite_food that knows favorite food of pets with a single
\* favorite food only: a pet that likes all food has no favorite
is_favorite_food_single_only(self, food_name) ==
    IF ~is_feedable(self) THEN FALSE
    ELSE IF likes_all_food(self) THEN FALSE
    ELSE IF has_just_1_favorite_food(self) THEN favorite_food(self) = food_name
    ELSE Raise("InvalidPet")

\* is_favorite_food that compares the food with favorite_food() for a pet
\* that likes all food too
is_favorite_food_by_name(self, food_name) ==
    IF ~is_feedable(self) THEN FALSE
    ELSE favorite_food(self) = food_name

is_favorite_food(self, food_name) ==
    IF ~is_feedable(self) THEN FALSE
    ELSE IF likes_all_food(self) THEN TRUE
    ELSE IF has_just_1_favorite_food(self) THEN favorite_food(self) = food_name
    ELSE Raise("InvalidPet")

is_generation1_pet(self) == IsIn(self.pet_name, generation1_pet_names)

is_quest_pet(self) == IsIn(self.pet_name, quest_pet_names)

is_magic_hatching_pet(self) == IsIn(self.pet_name, magic_potion_pet_names)

required_food_items_until_mount(self, food_name) ==
    required_food_items_to_become_mount(self.feeding_status,
                                        is_favorite_food(self, food_name))

(***************************************************************************)
(* FoodStockpile: a mapping from every food name to its count.             *)
(***************************************************************************)
food_names == Range(drop_food_names)

empty_stockpile == [food \in food_names |-> 0]

RECURSIVE MostAbundantFrom(_, _, _)
\* the scan for the highest count: best is the first food seen with the
\* highest count among drop_food_names[1..i-1]
MostAbundantFrom(stockpile, best, i) ==
    IF i > Len(drop_food_names) THEN best
    ELSE IF stockpile[drop_food_names[i]] > stockpile[best]
         THEN MostAbundantFrom(stockpile, drop_food_names[i], i + 1)
         ELSE MostAbundantFrom(stockpile, best, i + 1)

get_most_abundant_food(stockpile) ==
    MostAbundantFrom(stockpile, drop_food_names[1], 2)

has_sufficient(stockpile, food_name, n) == stockpile[food_name] >= n

\* modify_stockpile(food_name, n=n): the stockpile with n added to the count
\* of food_name, or the error raised when the count would drop below 0
modify_stockpile(stockpile, food_name, n) ==
    IF stockpile[food_name] + n < 0
    THEN Raise("InvalidFoodStockpile")
    ELSE [stockpile EXCEPT ![food_name] = @ + n]

(***************************************************************************)
(* Zoo and ZooHelper.  A zoo is the sequence of its pairs in iteration     *)
(* order; a pair is [pet_name, pet], and no two pairs share a pet_name.    *)
(***************************************************************************)
\* a pet that can still be fed: of a feedable kind and not yet a mount
can_feed_pet(pet) ==
    /\ is_feedable(pet)
    /\ pet.feeding_status.feeding_status # -1

\* predicate(pet), for a predicate on pets that is passed by its name
call(predicate, pet) ==
    CASE predicate = "is_generation1_pet" -> is_generation1_pet(pet)
      [] predicate = "is_quest_pet" -> is_quest_pet(pet)
      [] predicate = "is_magic_hatching_pet" -> is_magic_hatching_pet(pet)
      [] predicate = "can_feed_pet" -> can_feed_pet(pet)

RECURSIVE filter_from(_, _, _)
\* the pairs zoo[i..] whose pet satisfies the predicate, in the order of zoo
filter_from(zoo, predicate, i) ==
    IF i > Len(zoo) THEN <<>>
    ELSE IF call(predicate, zoo[i].pet)
         THEN <<zoo[i]>> \o filter_from(zoo, predicate, i + 1)
         ELSE filter_from(zoo, predicate, i + 1)

\* ZooHelper(zoo).filter_on_pet(predicate): a new zoo
filter_on_pet(zoo, predicate) == filter_from(zoo, predicate, 1)

\* ZooHelper(zoo).get_feedable_zoo()
get_feedable_zoo(zoo) == filter_on_pet(zoo, "can_feed_pet")

(***************************************************************************)
(* ZookeeperFeedPlan: the list of FeedPlanItems.                           *)
(***************************************************************************)
FeedPlanItem(pet_name, food_name, times) ==
    [pet_name |-> pet_name, food_name |-> food_name, times |-> times]

\* ZookeeperFeedPlan(): the new plan object
ZookeeperFeedPlan == [class |-> "ZookeeperFeedPlan", feed_plan |-> <<>>]

\* add_to_feed_plan that puts the new item in front of the plan
add_to_feed_plan_prepending(self, pet_name, food_name, times) ==
    [self EXCEPT !.feed_plan = <<FeedPlanItem(pet_name, food_name, times)>> \o @]

add_to_feed_plan(self, pet_name, food_name, times) ==
    [self EXCEPT !.feed_plan = Append(@, FeedPlanItem(pet_name, food_name, times))]

\* the fields @dataclass finds on ZookeeperFeedPlan: the class body
\* annotates no attribute (the list is set up in the hand-written __init__)
ZookeeperFeedPlan_fields == <<>>

\* self == other by the __eq__ that @dataclass generates: objects of one
\* class are equal when the tuples of their fields are; an object of another
\* class is another object
ZookeeperFeedPlan_eq(self, other) ==
    IF other.class = self.class
    THEN [i \in DOMAIN ZookeeperFeedPlan_fields |-> self[ZookeeperFeedPlan_fields[i]]]
             = [i \in DOMAIN ZookeeperFeedPlan_fields |-> other[ZookeeperFeedPlan_fields[i]]]
    ELSE FALSE

(***************************************************************************)
(* ZooFeedingAlgorithm.  alg[a] is the a-th algorithm object together with *)
(* the position of its make_plan() call:                                   *)
(*   pc              "new" before __init__, "idle" between calls,          *)
(*                   "make_plan" inside a call, "raised" after an          *)
(*                   exception                                             *)
(*   stockpile, zookeeper_plan, zoo    the three private fields            *)
(*   gen1_zoo, quest_zoo, magic_zoo    the locals of make_plan             *)
(*   idx             the number of pairs the three __make_plan calls have  *)
(*                   handled together, plus one                            *)
(*   result          what the last finished make_plan() call returned      *)
(*   calls           the number of make_plan() calls begun                 *)
(*   call_start      the length of the plan when the current call began    *)
(***************************************************************************)
Algos == {1, 2}

\* no make_plan() call has returned yet
NoResult == [class |-> "NoResult"]

NewAlgorithm ==
    [pc |-> "new", stockpile |-> empty_stockpile,
     zookeeper_plan |-> ZookeeperFeedPlan,
     zoo |-> <<>>, gen1_zoo |-> <<>>, quest_zoo |-> <<>>, magic_zoo |-> <<>>,
     idx |-> 0, result |-> NoResult, calls |-> 0, call_start |-> 0]

\* __init__ that keeps the zoo it is given, unfiltered
init_keeps_zoo(self, zoo, stockpile) ==
    IF self.pc # "new" THEN {}
    ELSE {[self EXCEPT !.pc = "idle",
                       !.stockpile = stockpile,
                       !.zookeeper_plan = ZookeeperFeedPlan,
                       !.zoo = zoo]}

\* ZooFeedingAlgorithm.__init__
init(self, zoo, stockpile) ==
    IF self.pc # "new" THEN {}
    ELSE {[self EXCEPT !.pc = "idle",
                       !.stockpile = stockpile,
                       !.zookeeper_plan = ZookeeperFeedPlan,
                       !.zoo = get_feedable_zoo(zoo)]}

\* make_plan, up to its first call of __make_plan
make_plan(self) ==
    IF self.pc # "idle" \/ self.calls >= MaxCalls THEN {}
    ELSE {[self EXCEPT !.pc = "make_plan",
                       !.gen1_zoo = filter_on_pet(self.zoo, "is_generation1_pet"),
                       !.quest_zoo = filter_on_pet(self.zoo, "is_quest_pet"),
                       !.magic_zoo = filter_on_pet(self.zoo, "is_magic_hatching_pet"),
                       !.idx = 1,
                       !.result = NoResult,
                       !.calls = @ + 1,
                       !.call_start = Len(self.zookeeper_plan.feed_plan)]}

\* make_plan with the magic sub-zoo planned first
feeding_order_magic_first(self) == self.magic_zoo \o self.gen1_zoo \o self.quest_zoo

\* the pairs in the order in which the three __make_plan calls of make_plan
\* iterate over them
feeding_order(self) == self.gen1_zoo \o self.quest_zoo \o self.magic_zoo

\* a pair is left for the for loops of __make_plan
AtPet(self) == self.pc = "make_plan" /\ self.idx <= Len(feeding_order(self))

\* chosen_food that takes the most abundant food for every pet
chosen_food_most_abundant(self, pet) == get_most_abundant_food(self.stockpile)

\* chosen_food that takes, for a pet without a single favorite food, the
\* food that was the most abundant when the algorithm was built
chosen_food_initial_most_abundant(self, pet) ==
    IF has_just_1_favorite_food(pet)
    THEN favorite_food(pet)
    ELSE get_most_abundant_food(start_stockpile)

\* the food that __make_plan picks for the pet
chosen_food(self, pet) ==
    IF has_just_1_favorite_food(pet)
    THEN favorite_food(pet)
    ELSE get_most_abundant_food(self.stockpile)

\* feed_pet that forgets the stockpile: the item is planned and the food
\* stays where it is
feed_pet_keeps_stock(self, pair, food_name) ==
    LET times == required_food_items_until_mount(pair.pet, food_name)
    IN IF has_sufficient(self.stockpile, food_name, times)
       THEN [self EXCEPT
                !.zookeeper_plan =
                    add_to_feed_plan(@, pair.pet_name, food_name, times),
                !.idx = @ + 1]
       ELSE [self EXCEPT !.idx = @ + 1]

\* feed_pet without the has_sufficient test and with the item planned before
\* the stockpile is asked: the exception of modify_stockpile comes too late
feed_pet_plans_first(self, pair, food_name) ==
    LET times == required_food_items_until_mount(pair.pet, food_name)
        planned == add_to_feed_plan(self.zookeeper_plan, pair.pet_name,
                                    food_name, times)
        modified == modify_stockpile(self.stockpile, food_name, -times)
    IN IF Raised(modified)
       THEN [self EXCEPT !.zookeeper_plan = planned, !.pc = "raised"]
       ELSE [self EXCEPT !.stockpile = modified,
                         !.zookeeper_plan = planned,
                         !.idx = @ + 1]

\* feed_pet that feeds what is left when the stockpile is short
feed_pet_partial(self, pair, food_name) ==
    LET times == required_food_items_until_mount(pair.pet, food_name)
        left == self.stockpile[food_name]
        given == IF left < times THEN left ELSE times
    IN IF given > 0
       THEN [self EXCEPT
                !.stockpile = modify_stockpile(@, food_name, -given),
                !.zookeeper_plan =
                    add_to_feed_plan(@, pair.pet_name, food_name, given),
                !.idx = @ + 1]
       ELSE [self EXCEPT !.idx = @ + 1]

\* the rest of an iteration of __make_plan once food_name is picked: the
\* pet is fed if the stockpile has enough of the food
\* feed_pet that plans only when more than the required items are there
feed_pet_strictly_more(self, pair, food_name) ==
    LET times == required_food_items_until_mount(pair.pet, food_name)
    IN IF has_sufficient(self.stockpile, food_name, times + 1)
       THEN LET modified == modify_stockpile(self.stockpile, food_name, -times)
            IN IF Raised(modified)
               THEN [self EXCEPT !.pc = "raised"]
               ELSE [self EXCEPT
                        !.stockpile = modified,
                        !.zookeeper_plan =
                            add_to_feed_plan(@, pair.pet_name, food_name, times),
                        !.idx = @ + 1]
       ELSE [self EXCEPT !.idx = @ + 1]

\* feed_pet that makes the pet it plans for a mount in the zoo
feed_pet_feeding_zoo(self, pair, food_name) ==
    LET times == required_food_items_until_mount(pair.pet, food_name)
        fed == [k \in DOMAIN self.zoo |->
                   IF self.zoo[k].pet_name = pair.pet_name
                   THEN [self.zoo[k] EXCEPT !.pet.feeding_status = FeedingStatus(-1)]
                   ELSE self.zoo[k]]
    IN IF has_sufficient(self.stockpile, food_name, times)
       THEN LET modified == modify_stockpile(self.stockpile, food_name, -times)
            IN IF Raised(modified)
               THEN [self EXCEPT !.pc = "raised"]
               ELSE [self EXCEPT
                        !.stockpile = modified,
                        !.zookeeper_plan =
                            add_to_feed_plan(@, pair.pet_name, food_name, times),
                        !.zoo = fed,
                        !.idx = @ + 1]
       ELSE [self EXCEPT !.idx = @ + 1]

\* feed_pet without the has_sufficient test: the stockpile is asked for the
\* food whatever it holds
feed_pet_unchecked(self, pair, food_name) ==
    LET times == required_food_items_until_mount(pair.pet, food_name)
        modified == modify_stockpile(self.stockpile, food_name, -times)
    IN IF Raised(modified)
       THEN [self EXCEPT !.pc = "raised"]
       ELSE [self EXCEPT
                !.stockpile = modified,
                !.zookeeper_plan =
                    add_to_feed_plan(@, pair.pet_name, food_name, times),
                !.idx = @ + 1]

feed_pet(self, pair, food_name) ==
    LET times == required_food_items_until_mount(pair.pet, food_name)
    IN IF has_sufficient(self.stockpile, food_name, times)
       THEN LET modified == modify_stockpile(self.stockpile, food_name, -times)
            IN IF Raised(modified)
               THEN [self EXCEPT !.pc = "raised"]
               ELSE [self EXCEPT
                        !.stockpile = modified,
                        !.zookeeper_plan =
                            add_to_feed_plan(@, pair.pet_name, food_name, times),
                        !.idx = @ + 1]
       ELSE [self EXCEPT !.idx = @ + 1]

\* the foods with the highest count
most_abundant_foods(stockpile) ==
    {food \in food_names : \A other \in food_names : stockpile[other] <= stockpile[food]}

\* make_plan_pet whose most abundant food is any of the foods with the
\* highest count, as the order of an unordered collection would give it
make_plan_pet_any_most_abundant(self) ==
    IF ~AtPet(self) THEN {}
    ELSE LET pair == feeding_order(self)[self.idx]
         IN IF has_just_1_favorite_food(pair.pet)
            THEN {feed_pet(self, pair, favorite_food(pair.pet))}
            ELSE {feed_pet(self, pair, food) : food \in most_abundant_foods(self.stockpile)}

\* one iteration of the for loop of __make_plan
make_plan_pet(self) ==
    IF ~AtPet(self) THEN {}
    ELSE LET pair == feeding_order(self)[self.idx]
         IN {feed_pet(self, pair, chosen_food(self, pair.pet))}

\* the three __make_plan calls are done and make_plan returns: it has no
\* return statement, so the caller receives None
make_plan_return(self) ==
    IF ~(self.pc = "make_plan" /\ ~AtPet(self)) THEN {}
    ELSE {[self EXCEPT !.pc = "idle", !.result = None]}

(***************************************************************************)
(* EggData and HatchPotionData: the catalogs of the hatchery, a few names  *)
(* of every list.                                                          *)
(***************************************************************************)
drop_egg_names == <<"Wolf", "Dragon">>

quest_egg_names == <<"Gryphon">>

egg_names == drop_egg_names \o quest_egg_names

drop_hatch_potion_names == <<"Base", "Golden">>

magic_hatch_potion_names == <<"Moonglow">>

wacky_hatch_potion_names == <<"Veggie">>

hatch_potion_names ==
    drop_hatch_potion_names \o magic_hatch_potion_names \o wacky_hatch_potion_names

(***************************************************************************)
(* Egg and HatchPotion.  Each is [name, quantity].                         *)
(***************************************************************************)
\* a raised exception of class name that carries a message
RaiseWith(name, message) == [raised |-> name, message |-> message]

\* Egg.__init__ that rejects quantity 0 too
Egg_rejecting_zero(name, quantity) ==
    IF ~IsIn(name, egg_names)
    THEN RaiseWith("EggException", "is not a valid egg name.")
    ELSE IF quantity <= 0
         THEN RaiseWith("EggException", "is below 0.")
    ELSE [name |-> name, quantity |-> quantity]

\* Egg(name, quantity=...): the object, or the exception raised
Egg(name, quantity) ==
    IF ~IsIn(name, egg_names)
    THEN RaiseWith("EggException", "is not a valid egg name.")
    ELSE IF quantity < 0
         THEN RaiseWith("EggException", "is below 0.")
    ELSE [name |-> name, quantity |-> quantity]

is_standard_egg(self) == IsIn(self.name, drop_egg_names)

is_quest_egg(self) == IsIn(self.name, quest_egg_names)

\* HatchPotion(name, quantity=...): the object, or the exception raised
HatchPotion(name, quantity) ==
    IF ~IsIn(name, hatch_potion_names)
    THEN RaiseWith("HatchPotionException", "is not a valid hatching potion name.")
    ELSE IF quantity < 0
         THEN RaiseWith("HatchPotionException", "is below 0.")
    ELSE [name |-> name, quantity |-> quantity]

is_standard_hatch_potion(self) == IsIn(self.name, drop_hatch_potion_names)

is_magic_hatch_potion(self) == IsIn(self.name, magic_hatch_potion_names)

is_wacky_hatch_potion(self) == IsIn(self.name, wacky_hatch_potion_names)

\* can_be_hatched_by that lets every potion hatch a quest egg
can_be_hatched_by_any_potion(self, potion) ==
    IF potion.quantity = 0 \/ self.quantity = 0 THEN FALSE
    ELSE TRUE

can_be_hatched_by(self, potion) ==
    IF potion.quantity = 0 \/ self.quantity = 0 THEN FALSE
    ELSE IF is_quest_egg(self) THEN is_standard_hatch_potion(potion)
    ELSE TRUE

(***************************************************************************)
(* EggCollection and HatchPotionCollection.  The Egg and HatchPotion       *)
(* objects live in a heap, a sequence whose indices are the references; a  *)
(* collection is a dict in insertion order, a sequence of entries          *)
(* [name, egg |-> reference] or [name, potion |-> reference].  An operation*)
(* that allocates or writes returns [heap, self], or the exception raised. *)
(***************************************************************************)
\* the place of the key name in the dict, 0 for a name the dict lacks
Lookup(entries, name) ==
    IF \E i \in DOMAIN entries : entries[i].name = name
    THEN CHOOSE i \in DOMAIN entries : entries[i].name = name
    ELSE 0

\* the first exception among the values, in order
FirstRaised(values) ==
    values[CHOOSE i \in DOMAIN values :
               Raised(values[i]) /\ \A j \in 1..(i - 1) : ~Raised(values[j])]

\* EggCollection(eggs) for a dict eggs of name: quantity items
EggCollection(h, eggs) ==
    LET made == [i \in DOMAIN eggs |-> Egg(eggs[i].name, eggs[i].quantity)]
    IN IF \E i \in DOMAIN made : Raised(made[i])
       THEN FirstRaised(made)
       ELSE [heap |-> h \o made,
             self |-> [class |-> "EggCollection",
                       eggs |-> [i \in DOMAIN eggs |->
                                    [name |-> eggs[i].name, egg |-> Len(h) + i]]]]

\* remove_egg that takes one off the quantity before it looks whether
\* there was one: the exception leaves the egg at -1
remove_egg_decrementing_first(h, self, egg) ==
    LET k == Lookup(self.eggs, egg.name)
    IN IF k = 0
       THEN RaiseWith("EggException", "was not in the collection")
       ELSE IF h[self.eggs[k].egg].quantity = 0
            THEN [raised |-> "EggException",
                  message |-> "We had 0 in the collection. Cannot remove any more.",
                  heap |-> [h EXCEPT ![self.eggs[k].egg].quantity = @ - 1],
                  self |-> self]
       ELSE [heap |-> [h EXCEPT ![self.eggs[k].egg].quantity = @ - 1], self |-> self]

\* remove_egg without the check of a quantity of 0
remove_egg_below_zero(h, self, egg) ==
    LET k == Lookup(self.eggs, egg.name)
    IN IF k = 0
       THEN RaiseWith("EggException", "was not in the collection")
       ELSE [heap |-> [h EXCEPT ![self.eggs[k].egg].quantity = @ - 1], self |-> self]

\* remove_egg that takes the entry out of the dict when its quantity
\* reaches 0
remove_egg_dropping_empty(h, self, egg) ==
    LET k == Lookup(self.eggs, egg.name)
    IN IF k = 0
       THEN RaiseWith("EggException", "was not in the collection")
       ELSE IF h[self.eggs[k].egg].quantity = 0
            THEN RaiseWith("EggException",
                           "We had 0 in the collection. Cannot remove any more.")
       ELSE [heap |-> [h EXCEPT ![self.eggs[k].egg].quantity = @ - 1],
             self |-> IF h[self.eggs[k].egg].quantity = 1
                      THEN [self EXCEPT !.eggs =
                               SubSeq(@, 1, k - 1) \o SubSeq(@, k + 1, Len(@))]
                      ELSE self]

remove_egg(h, self, egg) ==
    LET k == Lookup(self.eggs, egg.name)
    IN IF k = 0
       THEN RaiseWith("EggException", "was not in the collection")
       ELSE IF h[self.eggs[k].egg].quantity = 0
            THEN RaiseWith("EggException",
                           "We had 0 in the collection. Cannot remove any more.")
       ELSE [heap |-> [h EXCEPT ![self.eggs[k].egg].quantity = @ - 1], self |-> self]

\* the name: quantity items of the entries of a collection
Quantities(h, entries) ==
    [i \in DOMAIN entries |->
        [name |-> entries[i].name, quantity |-> h[entries[i].egg].quantity]]

\* get_standard_egg_collection that puts the Egg objects of the source in
\* the new collection instead of building eggs of their quantities
get_standard_egg_collection_sharing(h, self) ==
    LET standard(entry) == is_standard_egg(h[entry.egg])
    IN [heap |-> h,
        self |-> [class |-> "EggCollection", eggs |-> SelectSeq(self.eggs, standard)]]

\* get_standard_egg_collection whose dict is built from the last entry to
\* the first
get_standard_egg_collection_reversed(h, self) ==
    LET standard(entry) == is_standard_egg(h[entry.egg])
        kept == Quantities(h, SelectSeq(self.eggs, standard))
    IN EggCollection(h, [i \in DOMAIN kept |-> kept[Len(kept) + 1 - i]])

get_standard_egg_collection(h, self) ==
    LET standard(entry) == is_standard_egg(h[entry.egg])
    IN EggCollection(h, Quantities(h, SelectSeq(self.eggs, standard)))

get_quest_egg_collection(h, self) ==
    LET quest(entry) == is_quest_egg(h[entry.egg])
    IN EggCollection(h, Quantities(h, SelectSeq(self.eggs, quest)))

\* HatchPotionCollection(potions) for a dict potions of name: quantity items
HatchPotionCollection(h, potions) ==
    LET made == [i \in DOMAIN potions |->
                    HatchPotion(potions[i].name, potions[i].quantity)]
    IN IF \E i \in DOMAIN made : Raised(made[i])
       THEN FirstRaised(made)
       ELSE [heap |-> h \o made,
             self |-> [class |-> "HatchPotionCollection",
                       potions |-> [i \in DOMAIN potions |->
                                       [name |-> potions[i].name,
                                        potion |-> Len(h) + i]]]]

remove_hatch_potion(h, self, potion) ==
    LET k == Lookup(self.potions, potion.name)
    IN IF k = 0
       THEN RaiseWith("HatchPotionException", "was not in the collection")
       ELSE IF h[self.potions[k].potion].quantity = 0
            THEN RaiseWith("HatchPotionException",
                           "We had 0 in the collection. Cannot remove any more.")
       ELSE [heap |-> [h EXCEPT ![self.potions[k].potion].quantity = @ - 1],
             self |-> self]

(***************************************************************************)
(* HabiticaUser._filter_user.  The values of a user dict are tagged: a     *)
(* dict is [class |-> "dict", items |-> a function from its keys], a       *)
(* string is [class |-> "str", value |-> the text].                        *)
(***************************************************************************)
Dict(items) == [class |-> "dict", items |-> items]

Str(value) == [class |-> "str", value |-> value]

\* the filter strings tried, and filter_keys.split(".") of each
FilterStrings ==
    {"items", "flags", "items.currentPet", "stats.currentPet",
     "items.currentPet.name"}

SplitOnDot ==
    [filter_keys \in FilterStrings |->
        CASE filter_keys = "items" -> <<"items">>
          [] filter_keys = "flags" -> <<"flags">>
          [] filter_keys = "items.currentPet" -> <<"items", "currentPet">>
          [] filter_keys = "stats.currentPet" -> <<"stats", "currentPet">>
          [] filter_keys = "items.currentPet.name" -> <<"items", "currentPet", "name">>]

RECURSIVE filter_user_from(_, _, _, _)
\* the for loop of _filter_user from the i-th key on
filter_user_from(start_dict, filter_keys, dict_keys, i) ==
    IF i > Len(dict_keys) THEN Dict(filter_keys :> start_dict)
    ELSE IF start_dict # None
         THEN IF start_dict.class = "dict"
              THEN filter_user_from(DictGet(start_dict.items, dict_keys[i]),
                                    filter_keys, dict_keys, i + 1)
              ELSE Raise("AttributeError")
    ELSE Dict(filter_keys :> Dict(<<>>))

\* self._filter_user(user_dict=user_dict, filter_keys=filter_keys): the dict
\* returned, or the exception raised
filter_user(user_dict, filter_keys) ==
    filter_user_from(user_dict, filter_keys, SplitOnDot[filter_keys], 1)

(***************************************************************************)
(* The inputs: validated zoos and stockpiles.                              *)
(***************************************************************************)
\* the pets that the zoos hold as mounts too, at feeding status -1, and at
\* two statuses below the threshold: one with a single favorite food and
\* one that likes all food
MountNames == {"Wolf-Shade", "TigerCub-Fluorite"}

\* the feeding statuses of the pets of a zoo: already a mount, 10 and 5
\* short of the mount threshold for the pets of MountNames, 10 short for the
\* other pets that can be fed; a pet of a kind that cannot be fed stays at
\* the start status
ZooStatuses(pet_name) ==
    IF IsIn(pet_name, feedable_pet_names)
    THEN {s \in (IF pet_name \in MountNames THEN {-1, 45} ELSE {}) \cup {40} :
             ~Raised(FeedingStatus(s))}
    ELSE {START_FEEDING_STATE}

\* the pets the zoos are drawn from: one or two names of every catalog list
ZooNames ==
    {"Wolf-Shade", "Wolf-Golden", "TigerCub-Fluorite", "Alligator-Shade",
     "Wolf-Veggie", "Wolf-Veteran"}

\* the pairs a zoo is built of
ZooPairs ==
    UNION {{[pet_name |-> n, pet |-> Pet(n, FeedingStatus(s))] : s \in ZooStatuses(n)} :
              n \in ZooNames}

Zoos ==
    {zoo \in UNION {[1..n -> ZooPairs] : n \in 0..MaxZoo} :
        \A i, j \in DOMAIN zoo : zoo[i].pet_name = zoo[j].pet_name => i = j}

StockLevels == (0..MaxFood) \cup {PlentyFood}

\* the foods the stockpiles are drawn with; they hold no other food
StockedFoods == {"Chocolate", "Honey"}

Stockpiles ==
    {[food \in food_names |-> IF food \in StockedFoods THEN stocked[food] ELSE 0] :
        stocked \in [StockedFoods -> StockLevels]}

\* the zoo and the stockpile of the test of a filled stockpile and a hungry
\* zoo
hungry_zoo ==
    <<[pet_name |-> "Wolf-Shade", pet |-> Pet("Wolf-Shade", FeedingStatus(5))],
      [pet_name |-> "Alligator-Golden", pet |-> Pet("Alligator-Golden", FeedingStatus(10))],
      [pet_name |-> "Wolf-Red", pet |-> Pet("Wolf-Red", FeedingStatus(25))],
      [pet_name |-> "TigerCub-Fluorite", pet |-> Pet("TigerCub-Fluorite", FeedingStatus(49))]>>

hungry_zoo_stockpile ==
    [food \in food_names |->
        CASE food = "Chocolate" -> 10
          [] food = "Honey" -> 10
          [] food = "Strawberry" -> 10
          [] food = "Fish" -> 20
          [] food = "CottonCandyBlue" -> 5]

\* a zoo of one magic potion pet before much Fish and little Honey
magic_zoo ==
    <<[pet_name |-> "TigerCub-Fluorite",
       pet |-> Pet("TigerCub-Fluorite", FeedingStatus(START_FEEDING_STATE))]>>

magic_zoo_stockpile ==
    [food \in food_names |->
        CASE food = "Fish" -> 20
          [] food = "Honey" -> 1
          [] OTHER -> 0]

\* the zoos and stockpiles of the two scenarios
Scenarios ==
    {[zoo |-> hungry_zoo, stockpile |-> hungry_zoo_stockpile],
     [zoo |-> magic_zoo, stockpile |-> magic_zoo_stockpile]}

(***************************************************************************)
(* The planner: one ZooFeedingAlgorithm, algorithm 1, built from user_zoo  *)
(* and start_stockpile and asked for a plan up to MaxCalls times.          *)
(***************************************************************************)
NoStatus == [class |-> "NoStatus"]

fs_vars == <<fs_pc, fs_arg, fs_obj, fs_favorite, fs_required>>

\* no feeding status is under construction
IdleFeedingStatus ==
    /\ fs_pc = "idle"
    /\ fs_arg = START_FEEDING_STATE
    /\ fs_obj = NoStatus
    /\ fs_favorite = FALSE
    /\ fs_required = 0

\* no model is under construction
NoArgs ==
    [egg_name |-> "", egg_quantity |-> 0, potion_name |-> "", potion_quantity |-> 0,
     pet_name |-> ""]

IdleModels ==
    /\ args = NoArgs
    /\ new_egg = None
    /\ new_potion = None
    /\ new_pet = None
    /\ hatchable = <<>>
    /\ favorite = <<>>
    /\ generation1 = <<>>

\* no collection is built
NoCall == [op |-> "", on |-> "", name |-> "", raised |-> None]

IdleCollections ==
    /\ heap = <<>>
    /\ egg_collection = None
    /\ sub_collection = None
    /\ potion_collection = None
    /\ last_call = NoCall

\* no plan is filled outside a planner
IdlePlan ==
    /\ new_plan = ZookeeperFeedPlan
    /\ added = <<>>

\* no user dict is filtered
IdleFilter ==
    /\ given_dict = Dict(<<>>)
    /\ given_keys = ""
    /\ filtered = NoResult

\* no planner is built
IdlePlanner ==
    /\ user_zoo = <<>>
    /\ start_stockpile = empty_stockpile
    /\ alg = [a \in Algos |-> NewAlgorithm]

Init ==
    /\ \/ user_zoo \in Zoos /\ start_stockpile \in Stockpiles
       \/ \E scenario \in Scenarios :
             user_zoo = scenario.zoo /\ start_stockpile = scenario.stockpile
    /\ alg = [a \in Algos |-> NewAlgorithm]
    /\ IdleFeedingStatus
    /\ IdleModels
    /\ IdleCollections
    /\ IdlePlan
    /\ IdleFilter

\* algorithm 1 takes a step that leaves it as next
Become(next) ==
    /\ alg' = [alg EXCEPT ![1] = next]
    /\ UNCHANGED <<plan_vars, filter_vars, user_zoo, start_stockpile, fs_vars, model_vars, collection_vars>>

New == \E next \in init(alg[1], user_zoo, start_stockpile) : Become(next)

MakePlan == \E next \in make_plan(alg[1]) : Become(next)

MakePlanPet == \E next \in make_plan_pet(alg[1]) : Become(next)

MakePlanReturn == \E next \in make_plan_return(alg[1]) : Become(next)

Next ==
    \/ New
    \/ MakePlan
    \/ MakePlanPet
    \/ MakePlanReturn

Spec == Init /\ [][Next]_vars

(***************************************************************************)
(* Two runs: algorithms 1 and 2 are built from equal zoos and stockpiles   *)
(* (each owns its copy) and take every step together.                      *)
(***************************************************************************)
BecomeBoth(next1, next2) ==
    /\ alg' = [a \in Algos |-> IF a = 1 THEN next1 ELSE next2]
    /\ UNCHANGED <<plan_vars, filter_vars, user_zoo, start_stockpile, fs_vars, model_vars, collection_vars>>

NewBoth ==
    \E next1 \in init(alg[1], user_zoo, start_stockpile),
       next2 \in init(alg[2], user_zoo, start_stockpile) : BecomeBoth(next1, next2)

MakePlanBoth ==
    \E next1 \in make_plan(alg[1]), next2 \in make_plan(alg[2]) :
        BecomeBoth(next1, next2)

MakePlanPetBoth ==
    \E next1 \in make_plan_pet(alg[1]), next2 \in make_plan_pet(alg[2]) :
        BecomeBoth(next1, next2)

MakePlanReturnBoth ==
    \E next1 \in make_plan_return(alg[1]), next2 \in make_plan_return(alg[2]) :
        BecomeBoth(next1, next2)

NextTwin ==
    \/ NewBoth
    \/ MakePlanBoth
    \/ MakePlanPetBoth
    \/ MakePlanReturnBoth

SpecTwin == Init /\ [][NextTwin]_vars

(***************************************************************************)
(* FeedingStatus on its own: the constructor is tried on fs_arg, and an    *)
(* object it returns is asked for the food it requires.                    *)
(***************************************************************************)
StatusArgs == (-1 - StatusMargin)..(FULLY_FED_STATE + StatusMargin)

InitFeedingStatus ==
    /\ IdlePlanner
    /\ IdlePlan
    /\ IdleFilter
    /\ IdleModels
    /\ IdleCollections
    /\ fs_pc = "args"
    /\ fs_arg \in StatusArgs
    /\ fs_obj = NoStatus
    /\ fs_favorite \in BOOLEAN
    /\ fs_required = 0

\* FeedingStatus(fs_arg)
NewFeedingStatus ==
    /\ fs_pc = "args"
    /\ fs_obj' = FeedingStatus(fs_arg)
    /\ fs_pc' = IF Raised(fs_obj') THEN "raised" ELSE "constructed"
    /\ UNCHANGED <<plan_vars, filter_vars, planner_vars, model_vars, collection_vars,
                   fs_arg, fs_favorite, fs_required>>

\* fs_obj.required_food_items_to_become_mount(fs_favorite)
RequiredFood ==
    /\ fs_pc = "constructed"
    /\ fs_required' = required_food_items_to_become_mount(fs_obj, fs_favorite)
    /\ fs_pc' = "required"
    /\ UNCHANGED <<plan_vars, filter_vars, planner_vars, model_vars, collection_vars,
                   fs_arg, fs_obj, fs_favorite>>

NextFeedingStatus ==
    \/ NewFeedingStatus
    \/ RequiredFood

SpecFeedingStatus == InitFeedingStatus /\ [][NextFeedingStatus]_vars

(***************************************************************************)
(* The models on their own: Egg, HatchPotion and Pet are constructed from  *)
(* args, the egg is asked whether the potion hatches it, and the pet is    *)
(* asked for its favorite food and, repeatedly, for its category.          *)
(***************************************************************************)
NoSuchName == "NoSuchName"

ModelArgs ==
    [egg_name : Range(egg_names) \cup {NoSuchName},
     egg_quantity : -1..MaxQuantity,
     potion_name : Range(hatch_potion_names) \cup {NoSuchName},
     potion_quantity : -1..MaxQuantity,
     pet_name : Range(pet_names) \cup {NoSuchName}]

\* the constructor has returned the object
Constructed(object) == object # None /\ ~Raised(object)

InitModels ==
    /\ IdlePlanner
    /\ IdlePlan
    /\ IdleFilter
    /\ IdleFeedingStatus
    /\ IdleCollections
    /\ args \in ModelArgs
    /\ new_egg = None
    /\ new_potion = None
    /\ new_pet = None
    /\ hatchable = <<>>
    /\ favorite = <<>>
    /\ generation1 = <<>>

\* new_egg = Egg(args.egg_name, quantity=args.egg_quantity)
NewEgg ==
    /\ new_egg = None
    /\ new_egg' = Egg(args.egg_name, args.egg_quantity)
    /\ UNCHANGED <<plan_vars, filter_vars, planner_vars, fs_vars, collection_vars,
                   args, new_potion, new_pet, hatchable, favorite, generation1>>

\* new_potion = HatchPotion(args.potion_name, quantity=args.potion_quantity)
NewHatchPotion ==
    /\ new_potion = None
    /\ new_potion' = HatchPotion(args.potion_name, args.potion_quantity)
    /\ UNCHANGED <<plan_vars, filter_vars, planner_vars, fs_vars, collection_vars,
                   args, new_egg, new_pet, hatchable, favorite, generation1>>

\* new_pet = Pet(args.pet_name), at the default feeding status
NewPet ==
    /\ new_pet = None
    /\ new_pet' = Pet(args.pet_name, FeedingStatus(START_FEEDING_STATE))
    /\ UNCHANGED <<plan_vars, filter_vars, planner_vars, fs_vars, collection_vars,
                   args, new_egg, new_potion, hatchable, favorite, generation1>>

\* new_egg.can_be_hatched_by(new_potion)
CanBeHatchedBy ==
    /\ Constructed(new_egg)
    /\ Constructed(new_potion)
    /\ hatchable = <<>>
    /\ hatchable' = <<can_be_hatched_by(new_egg, new_potion)>>
    /\ UNCHANGED <<plan_vars, filter_vars, planner_vars, fs_vars, collection_vars,
                   args, new_egg, new_potion, new_pet, favorite, generation1>>

\* new_pet.favorite_food()
FavoriteFood ==
    /\ Constructed(new_pet)
    /\ favorite = <<>>
    /\ favorite' = <<favorite_food(new_pet)>>
    /\ UNCHANGED <<plan_vars, filter_vars, planner_vars, fs_vars, collection_vars,
                   args, new_egg, new_potion, new_pet, hatchable, generation1>>

\* new_pet.is_generation1_pet(), up to MaxAsks times
IsGeneration1Pet ==
    /\ Constructed(new_pet)
    /\ Len(generation1) < MaxAsks
    /\ generation1' = Append(generation1, is_generation1_pet(new_pet))
    /\ UNCHANGED <<plan_vars, filter_vars, planner_vars, fs_vars, collection_vars,
                   args, new_egg, new_potion, new_pet, hatchable, favorite>>

NextModels ==
    \/ NewEgg
    \/ NewHatchPotion
    \/ NewPet
    \/ CanBeHatchedBy
    \/ FavoriteFood
    \/ IsGeneration1Pet

SpecModels == InitModels /\ [][NextModels]_vars

(***************************************************************************)
(* The collections on their own: an EggCollection and a                    *)
(* HatchPotionCollection are built, one of them from a dict of items and   *)
(* the other empty; eggs and potions are removed from them, and the        *)
(* EggCollection is asked once for a sub-collection, from which eggs are   *)
(* removed too.  The potions of the dict are standard ones, the category  *)
(* of a potion having no part in a removal; the potions asked for range   *)
(* over all names.                                                         *)
(***************************************************************************)
\* the dicts of up to MaxEntries name: quantity items over the names
Dicts(names) ==
    {dict \in UNION {[1..n -> [name : names, quantity : 0..MaxQuantity]] :
                        n \in 0..MaxEntries} :
        \A i, j \in DOMAIN dict : dict[i].name = dict[j].name => i = j}

InitCollections ==
    /\ IdlePlanner
    /\ IdlePlan
    /\ IdleFilter
    /\ IdleFeedingStatus
    /\ IdleModels
    /\ \E dicts \in
             {[eggs |-> eggs, potions |-> <<>>] : eggs \in Dicts(Range(egg_names))}
                 \cup {[eggs |-> <<>>, potions |-> potions] :
                           potions \in Dicts(Range(drop_hatch_potion_names))} :
          LET first == EggCollection(<<>>, dicts.eggs)
              second == HatchPotionCollection(first.heap, dicts.potions)
          IN /\ heap = second.heap
             /\ egg_collection = first.self
             /\ potion_collection = second.self
    /\ sub_collection = None
    /\ last_call = NoCall

\* the outcome of a call: the heap it leaves and the call as last_call
\* records it
Called(op, on, name, out) ==
    /\ heap' = IF "heap" \in DOMAIN out THEN out.heap ELSE heap
    /\ last_call' = [op |-> op, on |-> on, name |-> name,
                     raised |-> IF Raised(out) THEN out ELSE None]

\* egg_collection.remove_egg(Egg(name))
RemoveEgg ==
    \E name \in Range(egg_names) :
        LET out == remove_egg(heap, egg_collection, Egg(name, 1))
        IN /\ Called("remove_egg", "egg_collection", name, out)
           /\ egg_collection' = IF "self" \in DOMAIN out THEN out.self ELSE egg_collection
           /\ UNCHANGED <<plan_vars, filter_vars, planner_vars, fs_vars, model_vars,
                          sub_collection, potion_collection>>

\* sub_collection.remove_egg(Egg(name))
RemoveSubEgg ==
    \E name \in Range(egg_names) :
        /\ sub_collection # None
        /\ LET out == remove_egg(heap, sub_collection, Egg(name, 1))
           IN /\ Called("remove_egg", "sub_collection", name, out)
              /\ sub_collection' = IF "self" \in DOMAIN out THEN out.self ELSE sub_collection
        /\ UNCHANGED <<plan_vars, filter_vars, planner_vars, fs_vars, model_vars,
                       egg_collection, potion_collection>>

\* sub_collection = egg_collection.get_standard_egg_collection()
GetStandardEggCollection ==
    /\ sub_collection = None
    /\ LET out == get_standard_egg_collection(heap, egg_collection)
       IN /\ Called("get_standard_egg_collection", "egg_collection", "", out)
          /\ sub_collection' = out.self
    /\ UNCHANGED <<plan_vars, filter_vars, planner_vars, fs_vars, model_vars, egg_collection, potion_collection>>

\* sub_collection = egg_collection.get_quest_egg_collection()
GetQuestEggCollection ==
    /\ sub_collection = None
    /\ LET out == get_quest_egg_collection(heap, egg_collection)
       IN /\ Called("get_quest_egg_collection", "egg_collection", "", out)
          /\ sub_collection' = out.self
    /\ UNCHANGED <<plan_vars, filter_vars, planner_vars, fs_vars, model_vars, egg_collection, potion_collection>>

\* potion_collection.remove_hatch_potion(HatchPotion(name))
RemoveHatchPotion ==
    \E name \in Range(hatch_potion_names) :
        LET out == remove_hatch_potion(heap, potion_collection, HatchPotion(name, 1))
        IN /\ Called("remove_hatch_potion", "potion_collection", name, out)
           /\ potion_collection' = IF "self" \in DOMAIN out THEN out.self ELSE potion_collection
           /\ UNCHANGED <<plan_vars, filter_vars, planner_vars, fs_vars, model_vars,
                          egg_collection, sub_collection>>

NextCollections ==
    \/ RemoveEgg
    \/ RemoveSubEgg
    \/ GetStandardEggCollection
    \/ GetQuestEggCollection
    \/ RemoveHatchPotion

SpecCollections == InitCollections /\ [][NextCollections]_vars

(***************************************************************************)
(* ZookeeperFeedPlan on its own: items are added to a new plan, and added  *)
(* keeps the arguments of the calls in call order.                         *)
(***************************************************************************)
\* the arguments of the add_to_feed_plan calls
PlanArgs ==
    [pet_name : {"Wolf-Shade", "TigerCub-Fluorite"},
     food_name : {"Chocolate", "Honey"},
     times : {1, 9}]

InitPlan ==
    /\ IdlePlanner
    /\ IdleFeedingStatus
    /\ IdleModels
    /\ IdleCollections
    /\ IdleFilter
    /\ new_plan = ZookeeperFeedPlan
    /\ added = <<>>

\* new_plan.add_to_feed_plan(pet_name, food_name, times)
AddToFeedPlan ==
    \E item \in PlanArgs :
        /\ Len(added) < MaxItems
        /\ new_plan' = add_to_feed_plan(new_plan, item.pet_name, item.food_name, item.times)
        /\ added' = Append(added, item)
        /\ UNCHANGED <<planner_vars, fs_vars, model_vars, collection_vars, filter_vars>>

NextPlan == AddToFeedPlan

SpecPlan == InitPlan /\ [][NextPlan]_vars

(***************************************************************************)
(* _filter_user on its own: it is called once on a user dict and a filter  *)
(* string.                                                                 *)
(***************************************************************************)
\* the dicts over some of the keys whose values are among values
DictsOver(keys, values) ==
    {Dict(items) : items \in UNION {[some -> values] : some \in SUBSET keys}}

\* the user dicts: under items and stats a string or a dict, in which
\* currentPet and currentMount are strings
UserDicts ==
    DictsOver({"items", "stats"},
              {Str("Wolf-Base")}
                  \cup DictsOver({"currentPet", "currentMount"}, {Str("Wolf-Base")}))

InitFilter ==
    /\ IdlePlanner
    /\ IdleFeedingStatus
    /\ IdleModels
    /\ IdleCollections
    /\ IdlePlan
    /\ given_dict \in UserDicts
    /\ given_keys \in FilterStrings
    /\ filtered = NoResult

\* filtered = self._filter_user(user_dict=given_dict, filter_keys=given_keys)
FilterUser ==
    /\ filtered = NoResult
    /\ filtered' = filter_user(given_dict, given_keys)
    /\ UNCHANGED <<planner_vars, fs_vars, model_vars, collection_vars, plan_vars,
                   given_dict, given_keys>>

NextFilter == FilterUser

SpecFilter == InitFilter /\ [][NextFilter]_vars

(***************************************************************************)
(* Properties of the planner.                                              *)
(***************************************************************************)
\* the items planned by algorithm a so far
Plan(a) == alg[a].zookeeper_plan.feed_plan

\* the items planned by the current or the last make_plan() call of a
CallPlan(a) == SubSeq(Plan(a), alg[a].call_start + 1, Len(Plan(a)))

\* a make_plan() call of algorithm a has returned and none is running
Returned(a) == alg[a].pc = "idle" /\ alg[a].calls >= 1

RECURSIVE Planned(_, _)
\* the sum of times over the items of feed_plan whose food is food_name
Planned(feed_plan, food_name) ==
    IF feed_plan = <<>> THEN 0
    ELSE (IF Head(feed_plan).food_name = food_name THEN Head(feed_plan).times ELSE 0)
         + Planned(Tail(feed_plan), food_name)

\* C1: stockpile conservation.  From construction on, through every step of
\* planning and after make_plan() has finished, each food's count has dropped
\* from its start count by exactly the sum of times of the plan items of that
\* food, and no count is negative.
C1_StockpileConservation ==
    alg[1].pc # "new" =>
        \A food \in food_names :
            /\ start_stockpile[food] - alg[1].stockpile[food] = Planned(Plan(1), food)
            /\ alg[1].stockpile[food] >= 0

\* make_plan() has finished with two items of the same food in the plan
C1_Witness ==
    /\ Returned(1)
    /\ \E i, j \in DOMAIN Plan(1) : i < j /\ Plan(1)[i].food_name = Plan(1)[j].food_name

\* C2: no overcommitment.  Whenever a step appends an item to the plan, the
\* count of the item's food right before the step is at least the item's
\* times.
C2_NoOvercommitment ==
    [][Len(Plan(1)') > Len(Plan(1)) =>
          LET item == Plan(1)'[Len(Plan(1)')]
          IN alg[1].stockpile[item.food_name] >= item.times]_vars

\* an item took the whole count of its food: the count was exactly times
C2_Witness ==
    \E i \in DOMAIN Plan(1) :
        /\ Plan(1)[i].times = start_stockpile[Plan(1)[i].food_name]
        /\ alg[1].stockpile[Plan(1)[i].food_name] = 0

\* C3: make_plan() returns the resulting plan.  Once a make_plan() call has
\* returned, the value it returned is the plan that the zookeeper_plan
\* property exposes.
C3_ReturnsThePlan ==
    Returned(1) => alg[1].result = alg[1].zookeeper_plan

NextFood(a) == chosen_food(alg[a], feeding_order(alg[a])[alg[a].idx].pet)

NextTimes(a) ==
    required_food_items_until_mount(feeding_order(alg[a])[alg[a].idx].pet, NextFood(a))

\* C5: skip on insufficiency.  A step that handles a pet whose required times
\* exceed the current count of the chosen food appends no plan item, leaves
\* every count as it is and moves on to the next pet.
C5_SkipOnInsufficiency ==
    [][(AtPet(alg[1]) /\ NextTimes(1) > alg[1].stockpile[NextFood(1)]) =>
          /\ alg[1]'.zookeeper_plan = alg[1].zookeeper_plan
          /\ alg[1]'.stockpile = alg[1].stockpile
          /\ alg[1]'.pc = "make_plan"
          /\ alg[1]'.idx = alg[1].idx + 1]_vars

\* the first pet needs 2 Chocolate, 1 is left: the planner has passed it,
\* nothing is planned and the Chocolate is still there
C5_Witness ==
    /\ alg[1].pc = "make_plan"
    /\ alg[1].calls = 1
    /\ alg[1].idx = 2
    /\ feeding_order(alg[1])[1].pet = Pet("Wolf-Shade", FeedingStatus(40))
    /\ start_stockpile["Chocolate"] = 1
    /\ alg[1].stockpile = start_stockpile
    /\ Plan(1) = <<>>

\* the pass of make_plan that handles the pet: 1 generation 1, 2 quest,
\* 3 magic potion
Pass(pet_name) ==
    CASE IsIn(pet_name, generation1_pet_names) -> 1
      [] IsIn(pet_name, quest_pet_names) -> 2
      [] IsIn(pet_name, magic_potion_pet_names) -> 3
      [] OTHER -> 0

\* the place of the pet in the iteration order of the zoo given to __init__
ZooIndex(pet_name) == CHOOSE i \in DOMAIN user_zoo : user_zoo[i].pet_name = pet_name

\* C6: plan ordering.  Among the items of one make_plan() call, the items of
\* generation 1 pets come before those of quest pets, which come before those
\* of magic potion pets, and the items of one category are in the order of
\* their pets in the zoo.
C6_PlanOrdering ==
    \A i, j \in DOMAIN CallPlan(1) :
        i < j =>
            LET first == CallPlan(1)[i].pet_name
                second == CallPlan(1)[j].pet_name
            IN \/ Pass(first) < Pass(second)
               \/ Pass(first) = Pass(second) /\ ZooIndex(first) < ZooIndex(second)

\* the zoo lists the magic pet first and Wolf-Golden before Wolf-Shade; the
\* plan has the two wolves in that order and the magic pet last
C6_Witness ==
    /\ Returned(1)
    /\ Len(user_zoo) = 3
    /\ user_zoo[1].pet_name = "TigerCub-Fluorite"
    /\ user_zoo[2].pet_name = "Wolf-Golden"
    /\ user_zoo[3].pet_name = "Wolf-Shade"
    /\ Len(CallPlan(1)) = 3
    /\ CallPlan(1)[1].pet_name = "Wolf-Golden"
    /\ CallPlan(1)[2].pet_name = "Wolf-Shade"
    /\ CallPlan(1)[3].pet_name = "TigerCub-Fluorite"

\* C7: one attempt per eligible pet.  In a make_plan() call every pet of the
\* feedable zoo is in exactly one place of the three passes, the passes hold
\* nothing else, and no pet name is in two items of the call.
C7_OncePerPet ==
    alg[1].calls >= 1 =>
        /\ \A k \in DOMAIN alg[1].zoo :
              Cardinality({i \in DOMAIN feeding_order(alg[1]) :
                  feeding_order(alg[1])[i] = alg[1].zoo[k]}) = 1
        /\ Len(feeding_order(alg[1])) = Len(alg[1].zoo)
        /\ \A i, j \in DOMAIN CallPlan(1) :
              CallPlan(1)[i].pet_name = CallPlan(1)[j].pet_name => i = j

\* a zoo of a generation 1, a quest and a magic pet, each fed once
C7_Witness ==
    /\ Returned(1)
    /\ Len(alg[1].zoo) = 3
    /\ Len(alg[1].gen1_zoo) = 1
    /\ Len(alg[1].quest_zoo) = 1
    /\ Len(alg[1].magic_zoo) = 1
    /\ Len(CallPlan(1)) = 3

\* the pair of the zoo is one the planner must leave alone: a rare pet, a
\* wacky pet or a pet that is a mount already
Unfeedable(pair) ==
    \/ IsIn(pair.pet_name, rare_pet_names)
    \/ IsIn(pair.pet_name, wacky_pet_names)
    \/ pair.pet.feeding_status.feeding_status = -1

\* C8: unfeedable pets are never planned.  No plan item names a rare pet, a
\* wacky pet or a pet at feeding status -1, and a zoo of such pets only
\* leaves the stockpile as it was.
C8_UnfeedableNeverPlanned ==
    alg[1].pc # "new" =>
        /\ \A i \in DOMAIN Plan(1) : \A k \in DOMAIN user_zoo :
              user_zoo[k].pet_name = Plan(1)[i].pet_name => ~Unfeedable(user_zoo[k])
        /\ (\A k \in DOMAIN user_zoo : Unfeedable(user_zoo[k])) =>
              alg[1].stockpile = start_stockpile

\* a rare pet, a wacky pet and a generation 1 pet at -1 before a stockpile
\* that could feed any pet: make_plan() has returned and nothing is planned
C8_Witness ==
    /\ Returned(1)
    /\ Len(user_zoo) = 3
    /\ \E k \in DOMAIN user_zoo : IsIn(user_zoo[k].pet_name, rare_pet_names)
    /\ \E k \in DOMAIN user_zoo : IsIn(user_zoo[k].pet_name, wacky_pet_names)
    /\ \E k \in DOMAIN user_zoo : user_zoo[k].pet = Pet("Wolf-Shade", FeedingStatus(-1))
    /\ \A food \in StockedFoods : start_stockpile[food] = PlentyFood
    /\ alg[1].stockpile = start_stockpile
    /\ Plan(1) = <<>>

\* C16: plan equality.  Two ZookeeperFeedPlans are equal exactly when their
\* sequences of FeedPlanItems are equal: the plan of an algorithm is equal to
\* a new, empty plan exactly when it holds no item.
C16_PlanEquality ==
    alg[1].pc # "new" =>
        (ZookeeperFeedPlan_eq(alg[1].zookeeper_plan, ZookeeperFeedPlan)
            <=> Plan(1) = ZookeeperFeedPlan.feed_plan)

\* the first make_plan() call of algorithm 1 has returned
ReturnedOnce == Returned(1) /\ alg[1].calls = 1

\* C19: mixed zoo.  For the zoo Wolf-Shade at 5, Alligator-Golden at 10,
\* Wolf-Red at 25 and TigerCub-Fluorite at 49 and the stockpile of 10
\* Chocolate, 10 Honey, 10 Strawberry, 20 Fish and 5 CottonCandyBlue,
\* make_plan() plans exactly four items, Wolf-Shade 9 Chocolate,
\* Alligator-Golden 8 Honey, Wolf-Red 5 Strawberry and TigerCub-Fluorite
\* 1 Fish, and leaves 1 Chocolate, 2 Honey, 5 Strawberry, 19 Fish and
\* 5 CottonCandyBlue.
C19_MixedZoo ==
    (user_zoo = hungry_zoo /\ start_stockpile = hungry_zoo_stockpile /\ ReturnedOnce) =>
        /\ Len(Plan(1)) = 4
        /\ Range(Plan(1)) =
              {FeedPlanItem("Wolf-Shade", "Chocolate", 9),
               FeedPlanItem("Alligator-Golden", "Honey", 8),
               FeedPlanItem("Wolf-Red", "Strawberry", 5),
               FeedPlanItem("TigerCub-Fluorite", "Fish", 1)}
        /\ alg[1].stockpile =
              [food \in food_names |->
                  CASE food = "Chocolate" -> 1
                    [] food = "Honey" -> 2
                    [] food = "Strawberry" -> 5
                    [] food = "Fish" -> 19
                    [] food = "CottonCandyBlue" -> 5]

\* make_plan() has returned for the mixed zoo, the magic pet planned last
C19_Witness ==
    /\ user_zoo = hungry_zoo
    /\ start_stockpile = hungry_zoo_stockpile
    /\ ReturnedOnce
    /\ Len(Plan(1)) = 4
    /\ Plan(1)[4].pet_name = "TigerCub-Fluorite"

\* C20: magic pet.  For the zoo of TigerCub-Fluorite at feeding status 5 and
\* the stockpile of 20 Fish and 1 Honey the food chosen for the pet is Fish
\* and the times are 9, the rate of a favorite food; the plan of make_plan()
\* is the one item TigerCub-Fluorite 9 Fish and the stockpile is left with
\* 11 Fish and 1 Honey.
C20_MagicPet ==
    (user_zoo = magic_zoo /\ start_stockpile = magic_zoo_stockpile) =>
        /\ (AtPet(alg[1]) /\ alg[1].calls = 1) =>
              /\ NextFood(1) = "Fish"
              /\ NextTimes(1) = 9
        /\ ReturnedOnce =>
              /\ Plan(1) = <<FeedPlanItem("TigerCub-Fluorite", "Fish", 9)>>
              /\ alg[1].stockpile =
                    [magic_zoo_stockpile EXCEPT !["Fish"] = 11, !["Honey"] = 1]

\* make_plan() has returned for the magic pet, 9 Fish planned
C20_Witness ==
    /\ user_zoo = magic_zoo
    /\ start_stockpile = magic_zoo_stockpile
    /\ ReturnedOnce
    /\ Len(Plan(1)) = 1
    /\ Plan(1)[1].times = 9

\* the food is the one that the potion to food table holds for the pet
SingleFavorite(pet_name, food_name) ==
    food_name = hatching_potion_favorite_food_mapping[NameParts[pet_name][2]]

\* no food of the stockpile has a higher count than the food
MostAbundant(stockpile, food_name) ==
    \A other \in food_names : stockpile[other] <= stockpile[food_name]

\* C21: target food.  The food chosen for a generation 1 or a quest pet is
\* its single favorite food whatever the stockpile holds; the food chosen
\* for a magic potion pet is one of the highest count in the stockpile as it
\* is when the pet is handled, after the subtractions for the pets handled
\* before it.  This holds for the pet handled next and for every item of the
\* plan, whose stockpile was the start counts less the items before it.
C21_TargetFood ==
    /\ AtPet(alg[1]) =>
          LET pet_name == feeding_order(alg[1])[alg[1].idx].pet_name
          IN /\ Pass(pet_name) \in {1, 2} => SingleFavorite(pet_name, NextFood(1))
             /\ Pass(pet_name) = 3 => MostAbundant(alg[1].stockpile, NextFood(1))
    /\ \A i \in DOMAIN Plan(1) :
          LET item == Plan(1)[i]
              before == SubSeq(Plan(1), 1, i - 1)
              chosen == start_stockpile[item.food_name] - Planned(before, item.food_name)
          IN IF Pass(item.pet_name) = 3
             THEN \A other \in food_names \ {item.food_name} :
                      start_stockpile[other] - Planned(before, other) <= chosen
             ELSE SingleFavorite(item.pet_name, item.food_name)

\* the start stockpile held more Chocolate than Honey; a wolf took the
\* Chocolate, and the magic pet after it was given Honey
C21_Witness ==
    /\ ReturnedOnce
    /\ start_stockpile["Chocolate"] > start_stockpile["Honey"]
    /\ Len(Plan(1)) = 2
    /\ Plan(1)[1].food_name = "Chocolate"
    /\ Plan(1)[2].pet_name = "TigerCub-Fluorite"
    /\ Plan(1)[2].food_name = "Honey"

\* C22: no exception.  No step of make_plan() raises; for an empty zoo before
\* any stockpile, and for a zoo of pets of feedable kinds, magic potion pets
\* among them, before a stockpile of 0 of every food, a make_plan() call that
\* has returned has left the plan empty and the stockpile as it was.
C22_NeverRaises ==
    /\ alg[1].pc # "raised"
    /\ (/\ Returned(1)
        /\ \/ user_zoo = <<>>
           \/ /\ \A k \in DOMAIN user_zoo : is_feedable(user_zoo[k].pet)
              /\ start_stockpile = empty_stockpile) =>
          /\ Plan(1) = <<>>
          /\ alg[1].stockpile = start_stockpile

\* a generation 1, a quest and a magic potion pet, none a mount, before an
\* empty stockpile: make_plan() has returned, twice
C22_Witness ==
    /\ Returned(1)
    /\ alg[1].calls = 2
    /\ Len(feeding_order(alg[1])) = 3
    /\ \E k \in DOMAIN user_zoo : Pass(user_zoo[k].pet_name) = 1
    /\ \E k \in DOMAIN user_zoo : Pass(user_zoo[k].pet_name) = 2
    /\ \E k \in DOMAIN user_zoo : Pass(user_zoo[k].pet_name) = 3
    /\ start_stockpile = empty_stockpile
    /\ Plan(1) = <<>>

\* C23: read-only zoo.  From construction on, whatever make_plan() has
\* planned, the zoo of the algorithm is the feedable part of the zoo it was
\* given: the same pets in the same order at the same feeding statuses, the
\* pets that received a plan item among them.
C23_ReadOnlyZoo ==
    alg[1].pc # "new" => alg[1].zoo = get_feedable_zoo(user_zoo)

\* make_plan() has returned with an item for Wolf-Shade, which the zoo of
\* the algorithm still holds at feeding status 40
C23_Witness ==
    /\ Returned(1)
    /\ \E i \in DOMAIN Plan(1) : Plan(1)[i].pet_name = "Wolf-Shade"
    /\ \E k \in DOMAIN alg[1].zoo :
          alg[1].zoo[k].pet = Pet("Wolf-Shade", FeedingStatus(40))

\* C24: a ZookeeperFeedPlan is an append-only sequence.  The new plan is
\* empty, and after any calls of add_to_feed_plan the feed plan is exactly
\* the items of those calls in the order of the calls: every call has put
\* one item at the end and has left the earlier items as they were.
C24_AppendOnly ==
    /\ Len(new_plan.feed_plan) = Len(added)
    /\ \A i \in DOMAIN added :
          new_plan.feed_plan[i] =
              FeedPlanItem(added[i].pet_name, added[i].food_name, added[i].times)

\* three calls were made, the first for another pet than the last
C24_Witness ==
    /\ Len(added) = 3
    /\ added[1].pet_name # added[3].pet_name
    /\ Len(new_plan.feed_plan) = 3

\* C26: favorite rate.  Every item of the plan feeds its pet at the rate of
\* favorite food: its times is the ceiling of (50 - feeding status) / 5 for
\* the feeding status the pet has in the zoo, never that of the other rate
\* where the two differ, and it is at least 1.
C26_FavoriteRate ==
    \A i \in DOMAIN Plan(1) :
        /\ Plan(1)[i].times >= 1
        /\ \E k \in DOMAIN user_zoo :
              /\ user_zoo[k].pet_name = Plan(1)[i].pet_name
              /\ Plan(1)[i].times =
                    Ceil(FULLY_FED_STATE - user_zoo[k].pet.feeding_status.feeding_status,
                         FAVORITE_INCREMENT)

\* the plan has an item of 2 for a pet at feeding status 40 that likes all
\* food: 2 is its number at the favorite rate, 5 at the other rate
C26_Witness ==
    \E i \in DOMAIN Plan(1) :
        /\ Plan(1)[i].pet_name = "TigerCub-Fluorite"
        /\ Plan(1)[i].times = 2
        /\ user_zoo[ZooIndex("TigerCub-Fluorite")].pet.feeding_status.feeding_status = 40

\* C27: magic pet sufficiency.  A step that handles a magic potion pet
\* which needs times items to become a mount appends an item for that pet
\* exactly when some food of the current stockpile has a count of at least
\* times; otherwise the plan stays as it is.
C27_MagicSufficiency ==
    [][(AtPet(alg[1]) /\ is_magic_hatching_pet(feeding_order(alg[1])[alg[1].idx].pet)) =>
          LET pet == feeding_order(alg[1])[alg[1].idx].pet
              times == Ceil(FULLY_FED_STATE - pet.feeding_status.feeding_status,
                            FAVORITE_INCREMENT)
              after == alg[1]'.zookeeper_plan.feed_plan
          IN IF \E food \in food_names : alg[1].stockpile[food] >= times
             THEN /\ Len(after) = Len(Plan(1)) + 1
                  /\ SubSeq(after, 1, Len(Plan(1))) = Plan(1)
                  /\ after[Len(after)].pet_name = pet.pet_name
                  /\ after[Len(after)].times = times
             ELSE after = Plan(1)]_vars

\* TigerCub-Fluorite at 40 needs 2 items: with exactly 2 Chocolate and less
\* Honey it got the Chocolate
C27_Witness ==
    /\ ReturnedOnce
    /\ start_stockpile["Chocolate"] = 2
    /\ start_stockpile["Honey"] = 1
    /\ Plan(1) = <<FeedPlanItem("TigerCub-Fluorite", "Chocolate", 2)>>

\* C28: one item per pet over all calls.  However many make_plan() calls
\* were made on the algorithm, no pet name is in two items of its plan: a
\* later call plans nothing for a pet that an earlier call has planned for.
C28_OneItemPerPet ==
    \A i, j \in DOMAIN Plan(1) :
        Plan(1)[i].pet_name = Plan(1)[j].pet_name => i = j

(***************************************************************************)
(* Properties of _filter_user.                                             *)
(***************************************************************************)
\* what a path leads to when it leads nowhere
Missing == [class |-> "missing"]

RECURSIVE PathValue(_, _, _)
\* value[k_i][k_i+1]...[k_n] for the keys k of dict_keys, Missing when a
\* key is absent or the value held on the way is not a dict
PathValue(value, dict_keys, i) ==
    IF i > Len(dict_keys) THEN value
    ELSE IF value.class = "dict" /\ dict_keys[i] \in DOMAIN value.items
         THEN PathValue(value.items[dict_keys[i]], dict_keys, i + 1)
         ELSE Missing

\* C25: _filter_user(user_dict, filter_keys) returns the dict that maps the
\* filter string to the value at the end of the path of its keys, and maps
\* it to the empty dict when the path does not exist (a key is missing at
\* any depth, the last one included, or a value on the way is not a dict);
\* it does not raise and leaves the user dict as it was.
C25_FilterUser ==
    filtered # NoResult =>
        LET found == PathValue(given_dict, SplitOnDot[given_keys], 1)
        IN filtered = Dict(given_keys :> IF found = Missing THEN Dict(<<>>) ELSE found)

(***************************************************************************)
(* Properties of FeedingStatus.                                            *)
(***************************************************************************)
\* C9: required-food arithmetic.  For an accepted feeding status s the
\* required number of items is ceil((50 - s) / 5) for a favorite food and
\* ceil((50 - s) / 2) otherwise: the least n with n * increment >= 50 - s.
C9_RequiredFood ==
    fs_pc = "required" =>
        LET increment == IF fs_favorite THEN 5 ELSE 2
        IN /\ fs_required * increment >= 50 - fs_arg
           /\ (fs_required - 1) * increment < 50 - fs_arg

\* status 49 and a food that is not the favorite: 1 item, where 1 / 2 rounds
\* up
C9_Witness ==
    /\ fs_pc = "required"
    /\ fs_arg = 49
    /\ ~fs_favorite
    /\ fs_required = 1

\* the constructor has returned a FeedingStatus
Accepted == fs_pc \in {"constructed", "required"}

\* C10 as stated: construction raises for 0, for 1..4, below -1 and from 50
\* on, and succeeds exactly for -1 and 5..49.
C10_AsStated ==
    fs_pc # "args" => (Accepted <=> (fs_arg = -1 \/ fs_arg \in 5..49))

\* C10, amended: construction raises InvalidFeedingStatus for 1..4, below -1
\* and from 50 on; it succeeds exactly for -1, 0 and 5..49, and the object
\* holds the status it was given.
C10_FeedingStatusValidation ==
    fs_pc # "args" =>
        /\ Accepted <=> (fs_arg \in {-1, 0} \/ fs_arg \in 5..49)
        /\ Accepted => fs_obj = [feeding_status |-> fs_arg]
        /\ fs_pc = "raised" <=> fs_obj = Raise("InvalidFeedingStatus")

\* FeedingStatus(0) has been constructed
C10_Witness ==
    /\ fs_pc = "constructed"
    /\ fs_arg = 0
    /\ fs_obj.feeding_status = 0

(***************************************************************************)
(* Properties of Egg, HatchPotion and Pet.                                 *)
(***************************************************************************)
\* C11: validation.  Constructing an Egg, a HatchPotion or a Pet with a name
\* outside its catalog raises the validation error of the model, and so does
\* constructing an Egg or a HatchPotion with a quantity below 0; with a
\* catalog name and a quantity of 0 or more the constructor returns an object
\* that holds exactly that name and that quantity.
C11_Validation ==
    /\ new_egg # None =>
          IF args.egg_name \notin Range(egg_names) \/ args.egg_quantity < 0
          THEN Raised(new_egg) /\ new_egg.raised = "EggException"
          ELSE new_egg = [name |-> args.egg_name, quantity |-> args.egg_quantity]
    /\ new_potion # None =>
          IF args.potion_name \notin Range(hatch_potion_names) \/ args.potion_quantity < 0
          THEN Raised(new_potion) /\ new_potion.raised = "HatchPotionException"
          ELSE new_potion = [name |-> args.potion_name, quantity |-> args.potion_quantity]
    /\ new_pet # None =>
          IF args.pet_name \notin Range(pet_names)
          THEN Raised(new_pet) /\ new_pet.raised = "InvalidPet"
          ELSE ~Raised(new_pet) /\ new_pet.pet_name = args.pet_name

\* an Egg of quantity 0 has been constructed, a HatchPotion of a catalog name
\* and quantity -1 has raised, and so has a Pet of an unknown name
C11_Witness ==
    /\ new_egg = [name |-> "Gryphon", quantity |-> 0]
    /\ args.potion_name = "Base"
    /\ args.potion_quantity = -1
    /\ Raised(new_potion)
    /\ args.pet_name = NoSuchName
    /\ Raised(new_pet)

\* C12: hatchability.  egg.can_be_hatched_by(potion) is false whenever the
\* quantity of the egg or of the potion is 0; otherwise it is, for a quest
\* egg, true exactly when the potion is a standard one, neither magic nor
\* wacky, and true for every potion when the egg is a standard egg.
C12_Hatchability ==
    hatchable # <<>> =>
        hatchable[1] =
            IF new_egg.quantity = 0 \/ new_potion.quantity = 0 THEN FALSE
            ELSE IF new_egg.name \in Range(quest_egg_names)
                 THEN /\ new_potion.name \in Range(drop_hatch_potion_names)
                      /\ new_potion.name \notin Range(magic_hatch_potion_names)
                      /\ new_potion.name \notin Range(wacky_hatch_potion_names)
            ELSE TRUE

\* a quest egg and a magic potion, one or more of each: the potion does not
\* hatch the egg
C12_Witness ==
    /\ hatchable = <<FALSE>>
    /\ new_egg.name = "Gryphon"
    /\ new_egg.quantity >= 1
    /\ new_potion.name = "Moonglow"
    /\ new_potion.quantity >= 1

\* the five category lists of PetData
Categories ==
    <<generation1_pet_names, quest_pet_names, magic_potion_pet_names,
      wacky_pet_names, rare_pet_names>>

\* the categories that list the pet name
CategoriesOf(pet_name) == {c \in DOMAIN Categories : IsIn(pet_name, Categories[c])}

C18_FavoriteFood ==
    favorite # <<>> =>
        LET pet_name == new_pet.pet_name
            potion_name == NameParts[pet_name][2]
        IN CASE 4 \in CategoriesOf(pet_name) \/ 5 \in CategoriesOf(pet_name) ->
                    favorite[1] = "Unfeedable"
             [] 3 \in CategoriesOf(pet_name) -> favorite[1] = "Any"
             [] 1 \in CategoriesOf(pet_name) \/ 2 \in CategoriesOf(pet_name) ->
                    /\ potion_name \in DOMAIN hatching_potion_favorite_food_mapping
                    /\ favorite[1] = hatching_potion_favorite_food_mapping[potion_name]
                    /\ favorite[1] \in Range(drop_food_names)
             [] OTHER -> FALSE

\* the quest pet Alligator-Golden has said that its favorite food is Honey
C18_Witness ==
    /\ Constructed(new_pet)
    /\ new_pet.pet_name = "Alligator-Golden"
    /\ favorite = <<"Honey">>

(***************************************************************************)
(* Properties of EggCollection and HatchPotionCollection.                  *)
(***************************************************************************)
\* the collections by the names the calls use for them
Collections ==
    [egg_collection |-> egg_collection,
     sub_collection |-> sub_collection,
     potion_collection |-> potion_collection]

\* the collection a call is made on
Target(on) == Collections[on]

\* the name: quantity items of a collection, in the order of its dict
Content(h, collection) ==
    IF collection.class = "EggCollection"
    THEN Quantities(h, collection.eggs)
    ELSE [i \in DOMAIN collection.potions |->
             [name |-> collection.potions[i].name,
              quantity |-> h[collection.potions[i].potion].quantity]]

\* the exception class of the collection a call is made on
DomainError(on) ==
    IF on = "potion_collection" THEN "HatchPotionException" ELSE "EggException"

\* the step is a call that removes one egg or one potion
Removes(made) == made.op \in {"remove_egg", "remove_hatch_potion"}

\* C13: removal errors.  Removing one unit of a name the collection lacks
\* raises the domain error of the collection that says the name was not in
\* it, removing one unit of a name whose quantity is 0 raises the domain
\* error with another message, that nothing more can be removed, and no other
\* removal raises; so every quantity of every collection is 0 or more at
\* all times.
C13_RemovalErrors ==
    /\ \A ref \in DOMAIN heap : heap[ref].quantity >= 0
    /\ [][/\ \A ref \in DOMAIN heap' : heap'[ref].quantity >= 0
          /\ Removes(last_call') =>
                LET content == Content(heap, Target(last_call'.on))
                    k == Lookup(content, last_call'.name)
                    absent == RaiseWith(DomainError(last_call'.on),
                                        "was not in the collection")
                    nothing_left ==
                        RaiseWith(DomainError(last_call'.on),
                                  "We had 0 in the collection. Cannot remove any more.")
                IN /\ absent # nothing_left
                   /\ k = 0 => last_call'.raised = absent
                   /\ (k # 0 /\ content[k].quantity = 0) =>
                          last_call'.raised = nothing_left
                   /\ (k # 0 /\ content[k].quantity >= 1) =>
                          last_call'.raised = None]_vars

\* the collection holds Wolf at quantity 0 after removals, and one more
\* removal of Wolf has raised
C13_Witness ==
    /\ last_call.op = "remove_egg"
    /\ last_call.on = "egg_collection"
    /\ last_call.name = "Wolf"
    /\ Raised(last_call.raised)
    /\ Len(egg_collection.eggs) = 2
    /\ \E k \in DOMAIN egg_collection.eggs :
          /\ egg_collection.eggs[k].name = "Wolf"
          /\ heap[egg_collection.eggs[k].egg].quantity = 0

\* C14: removal frame.  A removal that succeeds found the name at a quantity
\* of 1 or more and leaves it at one less, the entry staying in the
\* collection when it reaches 0; the quantity of every other entry and the
\* names of the collection, in their order, are as before.
C14_RemovalFrame ==
    [][(Removes(last_call') /\ last_call'.raised = None) =>
          LET before == Content(heap, Collections[last_call'.on])
              after == Content(heap', Collections'[last_call'.on])
              k == Lookup(before, last_call'.name)
          IN /\ k # 0
             /\ before[k].quantity >= 1
             /\ Len(after) = Len(before)
             /\ \A i \in DOMAIN before :
                   /\ after[i].name = before[i].name
                   /\ after[i].quantity =
                         IF i = k THEN before[i].quantity - 1 ELSE before[i].quantity]_vars

\* the last Gryphon has been removed: its entry is still there, at 0,
\* before a Wolf entry that holds what it held
C14_Witness ==
    /\ last_call = [op |-> "remove_egg", on |-> "egg_collection", name |-> "Gryphon",
                    raised |-> None]
    /\ Content(heap, egg_collection) =
          <<[name |-> "Gryphon", quantity |-> 0], [name |-> "Wolf", quantity |-> 2]>>

\* the references of the objects a collection holds
References(collection) == {collection.eggs[i].egg : i \in DOMAIN collection.eggs}

\* C15: sub-collections.  get_standard_egg_collection() and
\* get_quest_egg_collection() return a new EggCollection of new Egg objects
\* that holds exactly the entries of the source that are standard eggs, or
\* quest eggs, each at the quantity it has in the source at the time of the
\* call and in the order of the source; the source and its eggs are as
\* before.
C15_SubCollections ==
    [][last_call'.op \in {"get_standard_egg_collection", "get_quest_egg_collection"} =>
          LET source == Content(heap, egg_collection)
              wanted(item) ==
                  IF last_call'.op = "get_standard_egg_collection"
                  THEN item.name \in Range(drop_egg_names)
                  ELSE item.name \in Range(quest_egg_names)
          IN /\ last_call'.raised = None
             /\ sub_collection'.class = "EggCollection"
             /\ Content(heap', sub_collection') = SelectSeq(source, wanted)
             /\ References(sub_collection') \cap DOMAIN heap = {}
             /\ egg_collection' = egg_collection
             /\ \A ref \in DOMAIN heap : heap'[ref] = heap[ref]]_vars

\* the standard eggs of a collection of Gryphon and Wolf: Wolf alone, at
\* the quantity of the source
C15_Witness ==
    /\ last_call.op = "get_standard_egg_collection"
    /\ Content(heap, egg_collection) =
          <<[name |-> "Gryphon", quantity |-> 2], [name |-> "Wolf", quantity |-> 1]>>
    /\ Content(heap, sub_collection) = <<[name |-> "Wolf", quantity |-> 1]>>

\* C29: failed removal.  A remove_egg call that raises, because the name is
\* not in the collection or because its quantity is 0, leaves the collection
\* as it was: the same entries in the same order at the same quantities,
\* the same Egg objects, and the other collections untouched.
C29_FailedRemoval ==
    [][(last_call'.op = "remove_egg" /\ last_call'.raised # None) =>
          /\ heap' = heap
          /\ Collections' = Collections]_vars

\* removing Wolf from a collection that holds it at 0 has raised, and the
\* collection holds Gryphon at 1 and Wolf at 0 as it did
C29_Witness ==
    /\ last_call.op = "remove_egg"
    /\ last_call.on = "egg_collection"
    /\ last_call.name = "Wolf"
    /\ last_call.raised =
          RaiseWith("EggException", "We had 0 in the collection. Cannot remove any more.")
    /\ Content(heap, egg_collection) =
          <<[name |-> "Gryphon", quantity |-> 1], [name |-> "Wolf", quantity |-> 0]>>

\* the other one of the source collection and its sub-collection
Other(on) == IF on = "egg_collection" THEN "sub_collection" ELSE "egg_collection"

\* C30: independent sub-collection.  The collection that
\* get_standard_egg_collection() or get_quest_egg_collection() returned
\* shares no state with its source: a remove_egg call on the one, failed or
\* not, leaves the names and the quantities of the other as they were.
C30_IndependentSubCollection ==
    [][(last_call'.op = "remove_egg" /\ sub_collection # None) =>
          Content(heap', Collections'[Other(last_call'.on)]) =
              Content(heap, Collections[Other(last_call'.on)])]_vars

\* a Wolf was removed from the sub-collection of the standard eggs: it holds
\* 1 Wolf and the source still holds 2
C30_Witness ==
    /\ last_call = [op |-> "remove_egg", on |-> "sub_collection", name |-> "Wolf",
                    raised |-> None]
    /\ Content(heap, sub_collection) = <<[name |-> "Wolf", quantity |-> 1]>>
    /\ \E k \in DOMAIN egg_collection.eggs :
          Content(heap, egg_collection)[k] = [name |-> "Wolf", quantity |-> 2]


====
